---- MODULE Spec2Model ----
(***************************************************************************)
(* Model of the 3D scene editor (src/unnamed/part_000): registry, list UI, *)
(* selection and highlight boxes, gizmo sessions, import / edit of          *)
(* dimensions and the snapping logic.                                       *)
(*                                                                          *)
(* Lengths are integers in hundredths of a scene unit (1.00 = 100), so that *)
(* every quantity the handlers compute on the inputs drawn here is exact.   *)
(* Rotation is about the vertical axis (the only ring the gizmo exposes in  *)
(* rotate mode) in quarter turns, for which the box of the rotated mesh is  *)
(* the rotated box.  A scale factor desired / initialSize is kept as the    *)
(* fraction [n, d]; arithmetic is exact (no floating-point rounding).       *)
(*                                                                          *)
(* The Pomodoro timer (src/pomodoro/script.js) is a page of its own; its    *)
(* state is the variable timer, which the editor's handlers leave alone.    *)
(***************************************************************************)
EXTENDS Integers, Sequences, FiniteSets, TLC

VARIABLES
    objects,            \* Object3D of every registered mesh, by uuid
    sceneObjects,       \* uuids of the meshes added to the scene
    boxHelpers,         \* every BoxHelper created, by helper id
    sceneHelpers,       \* ids of the helpers added to the scene
    listRows,           \* children of objectListElement, in order
    loadedObjects,      \* the registry
    selectedObjectData, \* 0 (null) or the index of an entry of loadedObjects
    objectNameCounter,
    isDraggingTransform,
    orbitEnabled,       \* orbitControls.enabled
    tc,                 \* transformControls: attached object, mode, drag
    spinner,            \* loadingSpinnerElement shown
    pendingReads,       \* FileReaders whose load has not completed
    event,              \* the handler that ran last, with its inputs
    timer               \* the Pomodoro page: script variables, DOM, intervals

vars == <<objects, sceneObjects, boxHelpers, sceneHelpers, listRows,
          loadedObjects, selectedObjectData, objectNameCounter,
          isDraggingTransform, orbitEnabled, tc, spinner, pendingReads, event,
          timer>>

\* ------------------------------------------------------------ constants

\* 0.2 scene units, in hundredths
SNAP_THRESHOLD == 20
\* 0xaaaaaa
BOX_HELPER_COLOR_INACTIVE == 11184810
\* 0x0000ff
BOX_HELPER_COLOR_ACTIVE == 255
\* the clamp 1e-6 of a degenerate natural size is 1 / EPS_DEN hundredths;
\* initialSize is kept in these units
EPS_DEN == 10000

\* ------------------------------------------------------------ bounds

\* meshes registered in the editor specification
MaxObjects == 2
\* file reads in flight at once
MaxPending == 1
\* height (hundredths) up to which dimension edits are drawn in DimSpec
MaxDrift == 100
\* levels of parts below an imported object that a pick ray can hit
MaxDepth == 2
\* expiries of the Pomodoro timer after which it is not started again
MaxBeeps == 2

\* ------------------------------------------------------------ vectors, boxes

Axes == {"x", "y", "z"}

Vec(a, b, c) == [x |-> a, y |-> b, z |-> c]
ZeroVec == Vec(0, 0, 0)

Min2(a, b) == IF a <= b THEN a ELSE b
Max2(a, b) == IF a >= b THEN a ELSE b
Abs(a) == IF a < 0 THEN -a ELSE a

\* THREE.Box3; an empty box has min = +Infinity and max = -Infinity, kept
\* here as the flag alone
Box(lo, hi) == [empty |-> FALSE, min |-> lo, max |-> hi]
EmptyBox == [empty |-> TRUE, min |-> ZeroVec, max |-> ZeroVec]

\* a scale factor n / d applied to a local coordinate g
Scaled(g, s) == (g * s.n) \div s.d

Sorted(a, b) == <<Min2(a, b), Max2(a, b)>>
Negated(r) == <<-r[2], -r[1]>>

\* the extent of the scaled mesh on local axis i, as <<low, high>>
LocalRange(o, i) ==
    Sorted(Scaled(o.geom.min[i], o.scale[i]), Scaled(o.geom.max[i], o.scale[i]))

\* the extents on the world axes after the rotation about y by q quarter
\* turns (x' = x cos + z sin, z' = -x sin + z cos)
RotateRanges(q, rx, ry, rz) ==
    [x |-> CASE q = 0 -> rx
             [] q = 1 -> rz
             [] q = 2 -> Negated(rx)
             [] OTHER -> Negated(rz),
     y |-> ry,
     z |-> CASE q = 0 -> rz
             [] q = 1 -> Negated(rx)
             [] q = 2 -> Negated(rz)
             [] OTHER -> rx]

WorldRanges(o) ==
    RotateRanges(o.rotation, LocalRange(o, "x"), LocalRange(o, "y"),
                 LocalRange(o, "z"))

BoxAt(p, r) ==
    Box([i \in Axes |-> p[i] + r[i][1]], [i \in Axes |-> p[i] + r[i][2]])

getObjectAABB(o) ==
    IF o.geom.empty THEN EmptyBox ELSE BoxAt(o.position, WorldRanges(o))

BoxSize(b) == [i \in Axes |-> b.max[i] - b.min[i]]
BoxCenter(b) == [i \in Axes |-> (b.min[i] + b.max[i]) \div 2]

SizeOrZero(box) == IF box.empty THEN ZeroVec ELSE BoxSize(box)
getObjectDimensions(o) == SizeOrZero(getObjectAABB(o))

\* "W:1.00 H:2.00 D:0.50": the three sizes rounded to two decimals, which
\* for lengths in hundredths is the sizes themselves
formatDimensions(size) == [w |-> size.x, h |-> size.y, d |-> size.z]

\* ------------------------------------------------------------ parseFloat

Digits == <<"0", "1", "2", "3", "4", "5", "6", "7", "8", "9">>
IsDigit(c) == \E k \in 1..10 : Digits[k] = c
DigitVal(c) == (CHOOSE k \in 1..10 : Digits[k] = c) - 1

\* the number of digits of s from position i on
RECURSIVE DigitRun(_, _)
DigitRun(s, i) ==
    IF i <= Len(s) /\ IsDigit(s[i]) THEN 1 + DigitRun(s, i + 1) ELSE 0

\* the value of the digits s[i .. i + n - 1]
RECURSIVE DigitsValue(_, _, _)
DigitsValue(s, i, n) ==
    IF n = 0 THEN 0
    ELSE 10 * DigitsValue(s, i, n - 1) + DigitVal(s[i + n - 1])

NaN == [nan |-> TRUE, val |-> 0]
Number(neg, mag) == [nan |-> FALSE, val |-> IF neg THEN -mag ELSE mag]

\* the digit of the fraction at position i, when the fraction has one there
FracDigit(s, i, has) == IF has THEN DigitVal(s[i]) ELSE 0

\* ni digits from i0, then nf digits of fraction after the point
ParseValue(s, neg, i0, ni, nf) ==
    IF ni = 0 /\ nf = 0 THEN NaN
    ELSE Number(neg, 100 * DigitsValue(s, i0, ni)
                     + 10 * FracDigit(s, i0 + ni + 1, nf >= 1)
                     + FracDigit(s, i0 + ni + 2, nf >= 2))

ParseFraction(s, neg, i0, ni) ==
    ParseValue(s, neg, i0, ni,
               IF i0 + ni <= Len(s) /\ s[i0 + ni] = "."
               THEN DigitRun(s, i0 + ni + 1) ELSE 0)

ParseSigned(s, neg, i0) == ParseFraction(s, neg, i0, DigitRun(s, i0))

\* parseFloat on a string given as its characters: an optional sign, the
\* longest run of digits, an optional fraction; whatever follows is ignored,
\* and with no digit at all the result is NaN.  The value is in hundredths
\* (the inputs drawn have at most two decimals, no exponent and no leading
\* white space).
parseFloat(s) ==
    ParseSigned(s, Len(s) >= 1 /\ s[1] = "-",
                IF Len(s) >= 1 /\ s[1] \in {"-", "+"} THEN 2 ELSE 1)

\* what prompt() returns: null when cancelled, else the text typed
Cancel == [cancelled |-> TRUE, text |-> <<>>]
Typed(s) == [cancelled |-> FALSE, text |-> s]

\* ------------------------------------------------------------ Pomodoro timer

\* parseInt(s, 10) on a string given as its characters: an optional sign and
\* the longest run of digits; whatever follows is ignored, and with no digit
\* the result is NaN
ParseIntFrom(s, neg, i0, n) ==
    IF n = 0 THEN NaN ELSE Number(neg, DigitsValue(s, i0, n))
ParseIntSigned(s, neg, i0) == ParseIntFrom(s, neg, i0, DigitRun(s, i0))
parseInt(s) ==
    ParseIntSigned(s, Len(s) >= 1 /\ s[1] = "-",
                   IF Len(s) >= 1 /\ s[1] \in {"-", "+"} THEN 2 ELSE 1)

\* the text an input field shows when a number is assigned to its value
RECURSIVE NumberText(_)
NumberText(n) ==
    IF n < 10 THEN <<Digits[n + 1]>>
    ELSE NumberText(n \div 10) \o <<Digits[(n % 10) + 1]>>

Modes == {"pomodoro", "shortBreak", "longBreak"}

\* the input fields set to the durations
InputsOf(durations) == [m \in Modes |-> NumberText(durations[m])]

\* updateTimerDisplay: the text MM:SS as its two numbers, and the mode in
\* the title
updateTimerDisplay(t) ==
    [t EXCEPT !.display = <<t.timeLeft \div 60, t.timeLeft % 60>>,
              !.title = t.currentMode]

\* playBeep: beeps counts the calls of beepSound.play()
playBeep(t) == [t EXCEPT !.beeps = @ + 1]

\* clearInterval(id): scheduled is the set of intervals the page has running
clearInterval(t, id) == [t EXCEPT !.scheduled = @ \ {id}]

\* the handle setInterval returns: one that is neither running nor held in
\* timerInterval
NewInterval(t) ==
    CHOOSE id \in 1..(Cardinality(t.scheduled) + 2) :
        /\ id \notin t.scheduled \cup {t.timerInterval}
        /\ \A j \in 1..(id - 1) : j \in t.scheduled \cup {t.timerInterval}

\* timerInterval = setInterval(countdown, 1000)
Schedule(t, id) ==
    [t EXCEPT !.scheduled = @ \cup {id}, !.timerInterval = id]

\* a faulty variant: the interval keeps running after the expiry
ExpireRunning(t) ==
    updateTimerDisplay(playBeep([t EXCEPT !.isPaused = TRUE]))

\* the countdown of an expired timer: lines 59 - 72
Expire(t) ==
    updateTimerDisplay(
        playBeep([clearInterval(t, t.timerInterval) EXCEPT
                     !.timerInterval = 0, !.isPaused = TRUE]))

countdown(t) ==
    IF t.timeLeft <= 0 THEN Expire(t)
    ELSE updateTimerDisplay([t EXCEPT !.timeLeft = @ - 1])

pauseTimer(t) ==
    IF ~t.isPaused /\ t.timerInterval # 0
    THEN [clearInterval(t, t.timerInterval) EXCEPT
             !.isPaused = TRUE, !.timerInterval = 0]
    ELSE t

\* lines 106 - 108
ResetPaused(t) ==
    updateTimerDisplay([t EXCEPT !.isPaused = TRUE,
                                 !.timeLeft = t.durations[t.currentMode] * 60])

resetTimer(t) == ResetPaused(pauseTimer(t))

\* if (timerInterval) clearInterval(timerInterval)
ClearResidual(t) ==
    IF t.timerInterval # 0 THEN clearInterval(t, t.timerInterval) ELSE t

\* lines 86 - 89
Run(t) == Schedule(t, NewInterval(t))
StartPaused(t) == Run(ClearResidual([t EXCEPT !.isPaused = FALSE]))

\* a faulty variant: a running timer is started again
startTimerAgain(t) ==
    StartPaused(IF t.timeLeft <= 0 THEN resetTimer(t) ELSE t)

startTimer(t) ==
    IF t.isPaused
    THEN StartPaused(IF t.timeLeft <= 0 THEN resetTimer(t) ELSE t)
    ELSE t

\* lines 115 - 119
StopPaused(t) ==
    updateTimerDisplay([t EXCEPT !.isPaused = TRUE,
                                 !.currentMode = "pomodoro",
                                 !.activeMode = "pomodoro",
                                 !.timeLeft = t.durations.pomodoro * 60])

stopTimer(t) == StopPaused(pauseTimer(t))

\* lines 127 - 131
SwitchPaused(t, newMode) ==
    updateTimerDisplay([t EXCEPT !.isPaused = TRUE,
                                 !.currentMode = newMode,
                                 !.timeLeft = t.durations[newMode] * 60,
                                 !.activeMode = newMode])

switchMode(t, newMode) == SwitchPaused(pauseTimer(t), newMode)

\* lines 179 - 182
RefreshIfPaused(t) ==
    IF t.isPaused
    THEN updateTimerDisplay(
            [t EXCEPT !.timeLeft = t.durations[t.currentMode] * 60])
    ELSE t

\* applySettings once the three fields are parsed
ApplyParsed(t, newPomodoro, newShortBreak, newLongBreak) ==
    IF \/ newPomodoro.nan \/ newPomodoro.val < 1
       \/ newShortBreak.nan \/ newShortBreak.val < 1
       \/ newLongBreak.nan \/ newLongBreak.val < 1
    THEN [t EXCEPT !.inputs = InputsOf(t.durations)]
    ELSE RefreshIfPaused(
            [t EXCEPT !.durations =
                [pomodoro |-> newPomodoro.val, shortBreak |-> newShortBreak.val,
                 longBreak |-> newLongBreak.val]])

\* applySettings with the texts typed in the three fields
applySettings(t, typed) ==
    ApplyParsed([t EXCEPT !.inputs = typed], parseInt(typed.pomodoro),
                parseInt(typed.shortBreak), parseInt(typed.longBreak))

\* the script's variables as declared: lines 15 - 25
Declared ==
    [timerInterval |-> 0, timeLeft |-> 0, currentMode |-> "pomodoro",
     isPaused |-> TRUE,
     durations |-> [pomodoro |-> 25, shortBreak |-> 5, longBreak |-> 15],
     scheduled |-> {}, beeps |-> 0, display |-> <<0, 0>>,
     title |-> "pomodoro", activeMode |-> "pomodoro",
     inputs |-> [m \in Modes |-> <<>>]]

initializeTimer(t) ==
    updateTimerDisplay([t EXCEPT !.inputs = InputsOf(t.durations),
                                 !.timeLeft = t.durations.pomodoro * 60,
                                 !.activeMode = t.currentMode])

\* the page once the script has loaded
TimerStart == initializeTimer(Declared)

\* ------------------------------------------------------------ program state

\* the editor's state as one value, so that a handler is a function of it
Cur ==
    [objects |-> objects, sceneObjects |-> sceneObjects,
     boxHelpers |-> boxHelpers, sceneHelpers |-> sceneHelpers,
     listRows |-> listRows, loadedObjects |-> loadedObjects,
     selectedObjectData |-> selectedObjectData,
     objectNameCounter |-> objectNameCounter,
     isDraggingTransform |-> isDraggingTransform,
     orbitEnabled |-> orbitEnabled, tc |-> tc, spinner |-> spinner,
     pendingReads |-> pendingReads]

\* the editor's state after a handler returned w
Become(w) ==
    /\ objects' = w.objects
    /\ sceneObjects' = w.sceneObjects
    /\ boxHelpers' = w.boxHelpers
    /\ sceneHelpers' = w.sceneHelpers
    /\ listRows' = w.listRows
    /\ loadedObjects' = w.loadedObjects
    /\ selectedObjectData' = w.selectedObjectData
    /\ objectNameCounter' = w.objectNameCounter
    /\ isDraggingTransform' = w.isDraggingTransform
    /\ orbitEnabled' = w.orbitEnabled
    /\ tc' = w.tc
    /\ spinner' = w.spinner
    /\ pendingReads' = w.pendingReads
    /\ timer' = timer

\* the record of the handler that ran last: what it was, how it ended, the
\* registry entry it was about (for a click: the entry that was selected
\* when the click came), the dimensions asked for, and the
\* position the gizmo gave the object before the handler corrected it
Ev(op, note, obj, req, moved) ==
    [op |-> op, note |-> note, obj |-> obj, req |-> req, moved |-> moved]
NoEv(op, note) == Ev(op, note, 0, ZeroVec, ZeroVec)

\* the state after init()
Start ==
    [objects |-> <<>>, sceneObjects |-> {}, boxHelpers |-> <<>>,
     sceneHelpers |-> {}, listRows |-> <<>>, loadedObjects |-> <<>>,
     selectedObjectData |-> 0, objectNameCounter |-> 0,
     isDraggingTransform |-> FALSE, orbitEnabled |-> TRUE,
     tc |-> [object |-> 0, mode |-> "translate", dragging |-> FALSE,
             axis |-> FALSE],
     spinner |-> FALSE, pendingReads |-> 0]

\* the editor is in state w
Is(w) ==
    /\ objects = w.objects
    /\ sceneObjects = w.sceneObjects
    /\ boxHelpers = w.boxHelpers
    /\ sceneHelpers = w.sceneHelpers
    /\ listRows = w.listRows
    /\ loadedObjects = w.loadedObjects
    /\ selectedObjectData = w.selectedObjectData
    /\ objectNameCounter = w.objectNameCounter
    /\ isDraggingTransform = w.isDraggingTransform
    /\ orbitEnabled = w.orbitEnabled
    /\ tc = w.tc
    /\ spinner = w.spinner
    /\ pendingReads = w.pendingReads

Init ==
    /\ Is(Start)
    /\ event = NoEv("init", "ok")
    /\ timer = TimerStart

\* ------------------------------------------------------------ helpers

showSpinner(w) == [w EXCEPT !.spinner = TRUE]
hideSpinner(w) == [w EXCEPT !.spinner = FALSE]

\* the index of the first registry entry whose object is uuid, 0 if none
findObjectData(w, uuid) ==
    IF \E k \in 1..Len(w.loadedObjects) : w.loadedObjects[k].object = uuid
    THEN CHOOSE k \in 1..Len(w.loadedObjects) :
            /\ w.loadedObjects[k].object = uuid
            /\ \A j \in 1..(k - 1) : w.loadedObjects[j].object # uuid
    ELSE 0

\* the extents a helper caches
SetHelperBox(w, h, box) ==
    IF box.empty THEN w
    ELSE [w EXCEPT !.boxHelpers[h].box = [min |-> box.min, max |-> box.max]]

\* BoxHelper.update(): recompute the box of the helper's object; an empty box
\* leaves the cached extents as they were
HelperUpdate(w, h) ==
    SetHelperBox(w, h, getObjectAABB(w.objects[w.boxHelpers[h].object]))

SetListRow(w, row, o, selected) ==
    [w EXCEPT !.listRows[row].name = o.name,
              !.listRows[row].dims = formatDimensions(getObjectDimensions(o)),
              !.listRows[row].selected = IF selected THEN TRUE ELSE @]

updateListItemContent(w, di) ==
    IF di = 0 \/ w.loadedObjects[di].listItem = 0 THEN w
    ELSE SetListRow(w, w.loadedObjects[di].listItem,
                    w.objects[w.loadedObjects[di].object],
                    w.selectedObjectData = di)

\* a faulty variant: the colour is set for a selected object only
SetHelperStateNoRecolour(w, h, isSelected, isDragging) ==
    IF isSelected
    THEN [w EXCEPT !.boxHelpers[h].color = BOX_HELPER_COLOR_ACTIVE,
                   !.boxHelpers[h].visible = TRUE]
    ELSE [w EXCEPT !.boxHelpers[h].visible = isDragging]

\* the colour and the visibility updateBoxHelperState gives helper h
SetHelperState(w, h, isSelected, isDragging) ==
    IF isSelected
    THEN [w EXCEPT !.boxHelpers[h].color = BOX_HELPER_COLOR_ACTIVE,
                   !.boxHelpers[h].visible = TRUE]
    ELSE [w EXCEPT !.boxHelpers[h].color = BOX_HELPER_COLOR_INACTIVE,
                   !.boxHelpers[h].visible = isDragging]

updateBoxHelperState(w, di, isSelected, isDragging) ==
    IF di = 0 \/ w.loadedObjects[di].boxHelper = 0 THEN w
    ELSE HelperUpdate(
            SetHelperState(w, w.loadedObjects[di].boxHelper, isSelected,
                           isDragging),
            w.loadedObjects[di].boxHelper)

\* loadedObjects.forEach(data => updateBoxHelperState(data, data ===
\* selectedObjectData, isDragging)) over the entries k .. Len
RECURSIVE UpdateAllHelpers(_, _, _)
UpdateAllHelpers(w, k, isDragging) ==
    IF k > Len(w.loadedObjects) THEN w
    ELSE UpdateAllHelpers(
            updateBoxHelperState(w, k, k = w.selectedObjectData, isDragging),
            k + 1, isDragging)

\* loadedObjects.forEach(data => { if (data !== selectedObjectData)
\* updateBoxHelperState(data, false, false) }) over the entries k .. Len
RECURSIVE HideOtherHelpers(_, _)
HideOtherHelpers(w, k) ==
    IF k > Len(w.loadedObjects) THEN w
    ELSE HideOtherHelpers(
            updateBoxHelperState(w, IF k # w.selectedObjectData THEN k ELSE 0,
                                 FALSE, FALSE),
            k + 1)

\* ------------------------------------------------------------ selection

setTransformMode(w, mode) ==
    IF w.selectedObjectData = 0 THEN w
    ELSE UpdateAllHelpers([w EXCEPT !.tc.mode = mode], 1,
                          w.isDraggingTransform /\ mode = "translate")

\* a faulty variant: selectedObjectData is not reset
DetachKeepSelection(w) == [w EXCEPT !.tc.object = 0, !.tc.axis = FALSE]

\* transformControls.detach(); selectedObjectData = null
Detach(w) ==
    [w EXCEPT !.tc.object = 0, !.tc.axis = FALSE, !.selectedObjectData = 0]

\* listItem.classList.remove('selected')
Unmark(w, di) ==
    [w EXCEPT !.listRows[w.loadedObjects[di].listItem].selected = FALSE]

\* the first part of deselectObject: the previous selection is cleared
DeselectCurrent(w) ==
    IF w.selectedObjectData # 0
    THEN Detach(updateBoxHelperState(Unmark(w, w.selectedObjectData),
                                     w.selectedObjectData, FALSE, FALSE))
    ELSE w

\* a faulty variant: the other helpers are left as they are
ResetDragKeepHelpers(w) ==
    IF w.isDraggingTransform
    THEN [w EXCEPT !.isDraggingTransform = FALSE, !.orbitEnabled = TRUE]
    ELSE w

\* the second part of deselectObject: an interrupted drag is reset
ResetDrag(w) ==
    IF w.isDraggingTransform
    THEN HideOtherHelpers([w EXCEPT !.isDraggingTransform = FALSE,
                                    !.orbitEnabled = TRUE], 1)
    ELSE w

\* a faulty variant: an interrupted drag is not reset
deselectObjectNoReset(w) == DeselectCurrent(w)

deselectObject(w) == ResetDrag(DeselectCurrent(w))

\* selectedObjectData = data; classList.add('selected'); attach(object)
Mark(w, data) ==
    [w EXCEPT !.selectedObjectData = data,
              !.listRows[w.loadedObjects[data].listItem].selected = TRUE,
              !.tc.object = w.loadedObjects[data].object]

\* updateBoxHelperState(selectedObjectData, true, isDraggingTransform)
ShowSelected(w) ==
    updateBoxHelperState(w, w.selectedObjectData, TRUE, w.isDraggingTransform)

\* a faulty variant: the previous selection is not cleared
SelectDataKeep(w, data) ==
    ShowSelected(setTransformMode(Mark(w, data), "translate"))

\* selectObject from deselectObject() on
SelectData(w, data) ==
    ShowSelected(setTransformMode(Mark(deselectObject(w), data), "translate"))

\* selectObject once findObjectData has answered
SelectFound(w, uuid, data) ==
    IF data = 0 THEN w
    ELSE IF w.selectedObjectData # 0
            /\ w.loadedObjects[w.selectedObjectData].object = uuid THEN w
    ELSE SelectData(w, data)

selectObject(w, uuid) == SelectFound(w, uuid, findObjectData(w, uuid))

\* ------------------------------------------------------------ snapping

\* obj.position.y -= currentBox.min.y
LowerBy(w, uuid, currentBox) ==
    IF ~currentBox.empty
    THEN [w EXCEPT !.objects[uuid].position.y = @ - currentBox.min.y]
    ELSE w

\* a faulty variant: the object is left at its height
handleScaleNoSnap(w, uuid) == w

handleScaleGroundSnap(w, uuid) ==
    LowerBy(w, uuid, getObjectAABB(w.objects[uuid]))

\* the six face alignments of a target box, in the order they are tried
SnapChecks(sourceBox, targetBox) ==
    << [axis |-> "x", delta |-> targetBox.min.x - sourceBox.max.x],
       [axis |-> "x", delta |-> targetBox.max.x - sourceBox.min.x],
       [axis |-> "z", delta |-> targetBox.min.z - sourceBox.max.z],
       [axis |-> "z", delta |-> targetBox.max.z - sourceBox.min.z],
       [axis |-> "y", delta |-> targetBox.min.y - sourceBox.max.y],
       [axis |-> "y", delta |-> targetBox.max.y - sourceBox.min.y] >>

\* the two boxes overlap on axis i
OverlapOn(i, sourceBox, targetBox) ==
    sourceBox.min[i] < targetBox.max[i] /\ sourceBox.max[i] > targetBox.min[i]

\* the overlap test on the two axes other than the check's
Overlaps(axis, sourceBox, targetBox) ==
    \A i \in Axes \ {axis} : OverlapOn(i, sourceBox, targetBox)

NoSnap == [found |-> FALSE, axis |-> "x", delta |-> 0,
           minSnapDistSq |-> SNAP_THRESHOLD * SNAP_THRESHOLD]

\* a faulty variant: distSq <= minSnapDistSq
NearerOrEqual(delta, minSnapDistSq) == delta * delta <= minSnapDistSq

\* distSq < minSnapDistSq
Nearer(delta, minSnapDistSq) == delta * delta < minSnapDistSq

\* a faulty variant: no overlap test
TryCheckNoOverlap(best, check, sourceBox, targetBox) ==
    IF Nearer(check.delta, best.minSnapDistSq)
    THEN [found |-> TRUE, axis |-> check.axis, delta |-> check.delta,
          minSnapDistSq |-> check.delta * check.delta]
    ELSE best

\* one iteration of the loop over checks
TryCheck(best, check, sourceBox, targetBox) ==
    IF Nearer(check.delta, best.minSnapDistSq)
       /\ Overlaps(check.axis, sourceBox, targetBox)
    THEN [found |-> TRUE, axis |-> check.axis, delta |-> check.delta,
          minSnapDistSq |-> check.delta * check.delta]
    ELSE best

RECURSIVE ScanChecks(_, _, _, _, _)
ScanChecks(best, checks, i, sourceBox, targetBox) ==
    IF i > Len(checks) THEN best
    ELSE ScanChecks(TryCheck(best, checks[i], sourceBox, targetBox),
                    checks, i + 1, sourceBox, targetBox)

\* one iteration of the loop over loadedObjects
ScanTarget(best, target, uuid, sourceBox, targetBox) ==
    IF target = uuid \/ targetBox.empty THEN best
    ELSE ScanChecks(best, SnapChecks(sourceBox, targetBox), 1, sourceBox,
                    targetBox)

\* 1. the loop over loadedObjects, from entry k on
RECURSIVE ScanTargets(_, _, _, _, _)
ScanTargets(w, best, k, uuid, sourceBox) ==
    IF k > Len(w.loadedObjects) THEN best
    ELSE ScanTargets(w,
            ScanTarget(best, w.loadedObjects[k].object, uuid, sourceBox,
                       getObjectAABB(w.objects[w.loadedObjects[k].object])),
            k + 1, uuid, sourceBox)

\* a faulty variant: the delta is the distance, not its opposite
GroundCheckAway(best, groundDist) ==
    IF groundDist * groundDist < best.minSnapDistSq
       /\ Abs(groundDist) < SNAP_THRESHOLD
    THEN [best EXCEPT !.found = TRUE, !.axis = "y", !.delta = groundDist]
    ELSE best

\* a faulty variant: a distance of exactly the threshold is accepted
GroundCheckInclusive(best, groundDist) ==
    IF groundDist * groundDist <= best.minSnapDistSq
       /\ Abs(groundDist) <= SNAP_THRESHOLD
    THEN [best EXCEPT !.found = TRUE, !.axis = "y", !.delta = -groundDist]
    ELSE best

\* 2. the ground plane y = 0
GroundCheck(best, groundDist) ==
    IF groundDist * groundDist < best.minSnapDistSq
       /\ Abs(groundDist) < SNAP_THRESHOLD
    THEN [best EXCEPT !.found = TRUE, !.axis = "y", !.delta = -groundDist]
    ELSE best

\* the snap applySnapAdjustment selects for a source box (found = FALSE: none)
BestSnapFor(w, uuid, sourceBox) ==
    GroundCheck(ScanTargets(w, NoSnap, 1, uuid, sourceBox), sourceBox.min.y)

\* a faulty variant: sourceObject.position.sub(snapVector)
SubSnapVector(position, best) ==
    [position EXCEPT ![best.axis] = @ - best.delta]

\* 3. sourceObject.position.add(snapVector)
AddSnapVector(position, best) ==
    [position EXCEPT ![best.axis] = @ + best.delta]

\* a faulty variant: the delta is added on every axis
ApplyBestEveryAxis(w, uuid, best) ==
    IF best.found
    THEN [w EXCEPT !.objects[uuid].position =
                      Vec(@.x + best.delta, @.y + best.delta, @.z + best.delta)]
    ELSE w

ApplyBest(w, uuid, best) ==
    IF best.found
    THEN [w EXCEPT !.objects[uuid].position = AddSnapVector(@, best)]
    ELSE w

SnapFrom(w, uuid, sourceBox) ==
    IF sourceBox.empty THEN w
    ELSE ApplyBest(w, uuid, BestSnapFor(w, uuid, sourceBox))

applySnapAdjustment(w, uuid) ==
    IF uuid = 0 THEN w
    ELSE SnapFrom(w, uuid, getObjectAABB(w.objects[uuid]))

\* ------------------------------------------------------------ dimensions

\* the validation of the three parsed numbers
Validate(desiredWidth, desiredHeight, desiredDepth) ==
    IF \/ desiredWidth.nan \/ desiredHeight.nan \/ desiredDepth.nan
       \/ desiredWidth.val <= 0 \/ desiredHeight.val <= 0
       \/ desiredDepth.val <= 0
    THEN [status |-> "invalid", val |-> ZeroVec]
    ELSE [status |-> "ok",
          val |-> Vec(desiredWidth.val, desiredHeight.val, desiredDepth.val)]

\* the three prompts and the validation that follows them: "cancelled",
\* "invalid" or "ok" with the three parsed values
ReadDimensions(ans) ==
    IF ans.w.cancelled \/ ans.h.cancelled \/ ans.d.cancelled
    THEN [status |-> "cancelled", val |-> ZeroVec]
    ELSE Validate(parseFloat(ans.w.text), parseFloat(ans.h.text),
                  parseFloat(ans.d.text))

\* the natural size of a parsed mesh, in units of 1e-6: a zero extent (and
\* every extent of an empty box) is clamped to 1e-6
InitialSize(geom) ==
    [i \in Axes |->
        IF geom.empty \/ geom.max[i] - geom.min[i] = 0 THEN 1
        ELSE (geom.max[i] - geom.min[i]) * EPS_DEN]

\* a faulty variant: the factor of the width on every axis
ScaleForUniform(desired, initialSize) ==
    [i \in Axes |-> [n |-> desired.x * EPS_DEN, d |-> initialSize.x]]

\* desired / initialSize, per axis
ScaleFor(desired, initialSize) ==
    [i \in Axes |-> [n |-> desired[i] * EPS_DEN, d |-> initialSize[i]]]

\* object.position.set(currentX, -newBox.min.y, currentZ)
GroundAt(o, newBox) ==
    IF ~newBox.empty THEN [o EXCEPT !.position.y = -newBox.min.y] ELSE o

\* the new height of the object, from the world box it has where it stands
Reground(o) == GroundAt(o, getObjectAABB(o))

\* updateListItemContent(objectData); objectData.boxHelper.update()
RefreshRowAndHelper(w, di) ==
    IF w.loadedObjects[di].boxHelper # 0
    THEN HelperUpdate(updateListItemContent(w, di), w.loadedObjects[di].boxHelper)
    ELSE updateListItemContent(w, di)

\* a faulty variant: the parsed numbers are not validated
SetDimensionsUnchecked(w, di, read) ==
    IF read.status = "cancelled" THEN w
    ELSE RefreshRowAndHelper(
            [w EXCEPT !.objects[w.loadedObjects[di].object] =
                Reground([@ EXCEPT !.scale =
                            ScaleFor(read.val, w.loadedObjects[di].initialSize)])],
            di)

\* promptAndSetDimensions once the prompts are answered
SetDimensions(w, di, read) ==
    IF read.status # "ok" THEN w
    ELSE RefreshRowAndHelper(
            [w EXCEPT !.objects[w.loadedObjects[di].object] =
                Reground([@ EXCEPT !.scale =
                            ScaleFor(read.val, w.loadedObjects[di].initialSize)])],
            di)

promptAndSetDimensions(w, di, ans) ==
    IF di = 0 THEN w ELSE SetDimensions(w, di, ReadDimensions(ans))

\* ------------------------------------------------------------ import

\* the Object3D OBJLoader.parse returns: identity transform
ParsedObject(geom) ==
    [geom |-> geom, position |-> ZeroVec,
     scale |-> [i \in Axes |-> [n |-> 1, d |-> 1]],
     rotation |-> 0, name |-> 0]

\* object.position.set(-center.x, -scaledBox.min.y, -center.z)
CenterOn(o, scaledBox) ==
    IF ~scaledBox.empty
    THEN [o EXCEPT !.position = Vec(-BoxCenter(scaledBox).x, -scaledBox.min.y,
                                    -BoxCenter(scaledBox).z)]
    ELSE [o EXCEPT !.position = ZeroVec]

PlaceImported(o) == CenterOn(o, getObjectAABB(o))

\* the extents a new helper starts with
FirstBox(box) ==
    IF box.empty THEN [min |-> ZeroVec, max |-> ZeroVec]
    ELSE [min |-> box.min, max |-> box.max]

\* new THREE.BoxHelper(object, BOX_HELPER_COLOR_INACTIVE), hidden; the
\* constructor runs update() on extents that start as zeros
NewBoxHelper(uuid, o) ==
    [object |-> uuid, color |-> BOX_HELPER_COLOR_INACTIVE, visible |-> FALSE,
     box |-> FirstBox(getObjectAABB(o))]

\* scene.add(boxHelper); scene.add(object); appendChild(listItem);
\* loadedObjects.push(objectData)
AddToScene(w, o, initialSize, uuid, h, row) ==
    [w EXCEPT
       !.objects = Append(@, o),
       !.boxHelpers = Append(@, NewBoxHelper(uuid, o)),
       !.sceneHelpers = @ \cup {h},
       !.sceneObjects = @ \cup {uuid},
       !.listRows = Append(@, [objectUuid |-> uuid, selected |-> FALSE,
                               name |-> 0, dims |-> formatDimensions(ZeroVec)]),
       !.loadedObjects = Append(@, [object |-> uuid, initialSize |-> initialSize,
                                    listItem |-> row, boxHelper |-> h])]

\* updateListItemContent(objectData); selectObject(object)
ListAndSelect(w) ==
    selectObject(updateListItemContent(w, Len(w.loadedObjects)),
                 w.loadedObjects[Len(w.loadedObjects)].object)

\* a faulty variant: every entry is given the first highlight box
RegisterSharedHelper(w, o, initialSize) ==
    ListAndSelect(AddToScene(w, o, initialSize, Len(w.objects) + 1, 1,
                             Len(w.listRows) + 1))

\* the steps of reader.onload from scene.add(boxHelper) to selectObject
Register(w, o, initialSize) ==
    ListAndSelect(AddToScene(w, o, initialSize, Len(w.objects) + 1,
                             Len(w.boxHelpers) + 1, Len(w.listRows) + 1))

\* object.scale.set(...); objectNameCounter++; object.name = ...
ScaledObject(geom, desired, initialSize, counter) ==
    [ParsedObject(geom) EXCEPT !.scale = ScaleFor(desired, initialSize),
                               !.name = counter]

\* a faulty variant: the name counter is incremented before the validation
ImportCounting(w, geom, read) ==
    IF read.status # "ok"
    THEN hideSpinner([w EXCEPT !.objectNameCounter = @ + 1])
    ELSE Register([w EXCEPT !.objectNameCounter = @ + 1],
                  PlaceImported(ScaledObject(geom, read.val, InitialSize(geom),
                                             w.objectNameCounter + 1)),
                  InitialSize(geom))

\* the try block of reader.onload once the prompts are answered
Import(w, geom, read) ==
    IF read.status # "ok" THEN hideSpinner(w)
    ELSE Register([w EXCEPT !.objectNameCounter = @ + 1],
                  PlaceImported(ScaledObject(geom, read.val, InitialSize(geom),
                                             w.objectNameCounter + 1)),
                  InitialSize(geom))

\* the try block of reader.onload for a mesh that parsed, with the answers to
\* the three prompts
ProcessParsed(w, geom, ans) == Import(w, geom, ReadDimensions(ans))

\* the finally clause of reader.onload
Finally(w) == hideSpinner([w EXCEPT !.pendingReads = @ - 1])

\* reader.onload: parsed.ok = FALSE is OBJLoader.parse throwing
ReaderOnload(w, parsed, ans) ==
    Finally(IF parsed.ok THEN ProcessParsed(w, parsed.geom, ans) ELSE w)

\* the statements of the try block that change the editor, in their order:
\* objectNameCounter++, scene.add(boxHelper), scene.add(object),
\* appendChild(listItem), loadedObjects.push, updateListItemContent
ImportSteps == <<"name", "helper", "object", "row", "push", "label">>
StepNo(p) == CHOOSE k \in 1..Len(ImportSteps) : ImportSteps[k] = p
\* statement p ran when the last statement to complete was last
Done(last, p) == StepNo(p) <= StepNo(last)

\* the statements of AddToScene up to the one an exception cut them at
AddUntil(w, o, initialSize, uuid, h, row, last) ==
    [w EXCEPT
       !.objects = IF Done(last, "helper") THEN Append(@, o) ELSE @,
       !.boxHelpers = IF Done(last, "helper")
                      THEN Append(@, NewBoxHelper(uuid, o)) ELSE @,
       !.sceneHelpers = IF Done(last, "helper") THEN @ \cup {h} ELSE @,
       !.sceneObjects = IF Done(last, "object") THEN @ \cup {uuid} ELSE @,
       !.listRows = IF Done(last, "row")
                    THEN Append(@, [objectUuid |-> uuid, selected |-> FALSE,
                                    name |-> 0, dims |-> formatDimensions(ZeroVec)])
                    ELSE @,
       !.loadedObjects = IF Done(last, "push")
                         THEN Append(@, [object |-> uuid,
                                         initialSize |-> initialSize,
                                         listItem |-> row, boxHelper |-> h])
                         ELSE @]

LabelIf(w, last) ==
    IF Done(last, "label") THEN updateListItemContent(w, Len(w.loadedObjects))
    ELSE w

\* the registration when an exception is raised after statement last
RegisterUntil(w, o, initialSize, last) ==
    LabelIf(AddUntil(w, o, initialSize, Len(w.objects) + 1,
                     Len(w.boxHelpers) + 1, Len(w.listRows) + 1, last), last)

\* the try block when an exception is raised after statement last (the
\* prompts were answered with valid dimensions, or it had returned before)
ImportThrowing(w, geom, read, last) ==
    IF read.status # "ok" THEN hideSpinner(w)
    ELSE RegisterUntil([w EXCEPT !.objectNameCounter = @ + 1],
                       PlaceImported(ScaledObject(geom, read.val,
                                                  InitialSize(geom),
                                                  w.objectNameCounter + 1)),
                       InitialSize(geom), last)

\* reader.onload when a statement of the try block throws: the catch clause
\* logs and alerts, the finally clause runs
ReaderOnloadThrowing(w, geom, ans, last) ==
    Finally(ImportThrowing(w, geom, ReadDimensions(ans), last))

\* reader.onerror
ReaderOnerror(w) == hideSpinner([w EXCEPT !.pendingReads = @ - 1])

\* handleFileSelect: file is "none", "other" (not a .obj name) or "obj"
handleFileSelect(w, file) ==
    IF file # "obj" THEN w
    ELSE [showSpinner(w) EXCEPT !.pendingReads = @ + 1]

\* ------------------------------------------------------------ gizmo listeners

\* updateListItemContent(selectedObjectData) when the drag ended
RefreshSelectedRow(w, isStartingDrag) ==
    IF ~isStartingDrag /\ w.selectedObjectData # 0
    THEN updateListItemContent(w, w.selectedObjectData)
    ELSE w

\* the forEach of the 'dragging-changed' listener
ShowForDrag(w) ==
    UpdateAllHelpers(w, 1, w.isDraggingTransform /\ w.tc.mode = "translate")

\* a faulty variant: the camera orbit is left as it is
draggingChangedFlagOnly(w, isStartingDrag) ==
    RefreshSelectedRow(
        ShowForDrag([w EXCEPT !.isDraggingTransform = isStartingDrag]),
        isStartingDrag)

\* the 'dragging-changed' listener
draggingChanged(w, isStartingDrag) ==
    RefreshSelectedRow(
        ShowForDrag([w EXCEPT !.orbitEnabled = ~isStartingDrag,
                              !.isDraggingTransform = isStartingDrag]),
        isStartingDrag)

\* the correction the listener makes, by mode
Correct(w, uuid) ==
    CASE w.tc.mode = "translate" -> applySnapAdjustment(w, uuid)
      [] w.tc.mode = "scale" -> handleScaleGroundSnap(w, uuid)
      [] OTHER -> w

\* a faulty variant: the listener does not refresh the helper
UpdateSelectedHelperSkip(w) == w

\* selectedObjectData.boxHelper.update()
UpdateSelectedHelper(w) ==
    IF w.loadedObjects[w.selectedObjectData].boxHelper # 0
    THEN HelperUpdate(w, w.loadedObjects[w.selectedObjectData].boxHelper)
    ELSE w

\* the 'objectChange' listener
objectChange(w) ==
    IF w.isDraggingTransform /\ w.selectedObjectData # 0
    THEN UpdateSelectedHelper(
            Correct(w, w.loadedObjects[w.selectedObjectData].object))
    ELSE w

\* what the gizmo does to its object on a pointer move, by mode: a new
\* position, quarter turns about y, or a new scale on one axis
GizmoApply(o, mode, move) ==
    CASE mode = "translate" -> [o EXCEPT !.position = move.position]
      [] mode = "rotate" -> [o EXCEPT !.rotation = (@ + move.turns) % 4]
      [] OTHER -> [o EXCEPT !.scale[move.axis].n = move.size * EPS_DEN]

\* animate(): the helpers of the other objects are refreshed while they show
RECURSIVE RefreshVisibleHelpers(_, _)
RefreshVisibleHelpers(w, k) ==
    IF k > Len(w.loadedObjects) THEN w
    ELSE RefreshVisibleHelpers(
            IF /\ k # w.selectedObjectData
               /\ w.loadedObjects[k].boxHelper # 0
               /\ w.boxHelpers[w.loadedObjects[k].boxHelper].visible
            THEN HelperUpdate(w, w.loadedObjects[k].boxHelper) ELSE w,
            k + 1)

animate(w) ==
    IF w.isDraggingTransform /\ w.tc.mode = "translate"
    THEN RefreshVisibleHelpers(w, 1)
    ELSE w

\* ------------------------------------------------------------ input handlers

\* onMouseClick: target is "info", "fileInput", "canvas" or "other".
\* A node of the scene graph is the path to it from the scene: <<>> is the
\* scene, <<u>> the imported object u, <<u, 1>> a part of it, and so on.
Parent(node) == SubSeq(node, 1, Len(node) - 1)

\* intersectableObjects.includes(node)
Intersectable(w, node) == Len(node) = 1 /\ findObjectData(w, node[1]) # 0

\* a faulty variant: no walk up the parent chain
ClickedRootNoWalk(w, node) == node

\* the while loop of line 251; only the scene has no parent
RECURSIVE ClickedRoot(_, _)
ClickedRoot(w, node) ==
    IF Len(node) # 0 /\ ~Intersectable(w, node)
    THEN ClickedRoot(w, Parent(node))
    ELSE node

\* line 252
SelectRoot(w, clickedRootObject) ==
    IF Intersectable(w, clickedRootObject)
    THEN selectObject(w, clickedRootObject[1])
    ELSE deselectObject(w)

\* a faulty variant: a click on empty space keeps the selection
onMouseClickKeep(w, target, intersects) ==
    IF target = "info" \/ target = "fileInput" \/ w.isDraggingTransform THEN w
    ELSE IF target # "canvas" THEN w
    ELSE IF Len(intersects) > 0
         THEN SelectRoot(w, ClickedRoot(w, intersects[1]))
    ELSE w

\* onMouseClick: intersects is what the ray cast returns, nearest hit first
onMouseClick(w, target, intersects) ==
    IF target = "info" \/ target = "fileInput" \/ w.isDraggingTransform THEN w
    ELSE IF target # "canvas" THEN w
    ELSE IF Len(intersects) > 0
         THEN SelectRoot(w, ClickedRoot(w, intersects[1]))
    ELSE deselectObject(w)

\* onListClick once the row's entry is found
ListClickOn(w, objectData, onEditButton, ans) ==
    IF objectData = 0 THEN w
    ELSE IF onEditButton THEN promptAndSetDimensions(w, objectData, ans)
    ELSE selectObject(w, w.loadedObjects[objectData].object)

\* onListClick on row (0: not on a row), on its edit button or elsewhere
onListClick(w, row, onEditButton, ans) ==
    IF row = 0 THEN w
    ELSE ListClickOn(w, findObjectData(w, w.listRows[row].objectUuid),
                     onEditButton, ans)

\* the mode a key asks for
ModeOfKey(key) ==
    CASE key = "t" -> "translate" [] key = "r" -> "rotate" [] OTHER -> "scale"

\* onKeyDown: inField is the key going to an INPUT or TEXTAREA
onKeyDown(w, inField, key, ans) ==
    IF inField THEN w
    ELSE IF key = "escape" THEN deselectObject(w)
    ELSE IF w.selectedObjectData = 0 THEN w
    ELSE IF key \in {"t", "r", "s"} THEN setTransformMode(w, ModeOfKey(key))
    ELSE IF key = "d" THEN promptAndSetDimensions(w, w.selectedObjectData, ans)
    ELSE w

\* ------------------------------------------------------------ actions

\* the file input changes
FileSelect(file) ==
    /\ file = "obj" => pendingReads < MaxPending
    /\ Become(handleFileSelect(Cur, file))
    /\ event' = NoEv("fileSelect", IF file = "obj" THEN "read" ELSE "rejected")

ImportEv(parsed, read, register, di) ==
    IF ~parsed.ok THEN NoEv("import", "parseError")
    ELSE Ev("import", read.status, IF register THEN di ELSE 0, read.val, ZeroVec)

LoadDoneRead(parsed, ans, cap, read) ==
    /\ pendingReads > 0
    /\ (parsed.ok /\ read.status = "ok") => Len(loadedObjects) < cap
    /\ Become(ReaderOnload(Cur, parsed, ans))
    /\ event' = ImportEv(parsed, read, parsed.ok /\ read.status = "ok",
                         Len(loadedObjects) + 1)

\* a FileReader completes: parsed is what OBJLoader.parse makes of the text,
\* ans the answers to the prompts; cap bounds the registry
LoadDone(parsed, ans, cap) == LoadDoneRead(parsed, ans, cap, ReadDimensions(ans))

LoadFaultRead(geom, ans, last, cap, read) ==
    /\ pendingReads > 0
    /\ read.status = "ok"
    /\ Len(objects) < cap /\ objectNameCounter < cap
    /\ Become(ReaderOnloadThrowing(Cur, geom, ans, last))
    /\ event' = Ev("import", "fault", Len(loadedObjects), read.val, ZeroVec)

\* a FileReader completes and a statement of the try block throws after
\* statement last; the event records the length of the registry before
LoadFault(geom, ans, last, cap) ==
    LoadFaultRead(geom, ans, last, cap, ReadDimensions(ans))

\* a FileReader fails
LoadError ==
    /\ pendingReads > 0
    /\ Become(ReaderOnerror(Cur))
    /\ event' = NoEv("import", "readError")

\* the pointer goes down on a handle of the attached gizmo
PointerDown ==
    /\ tc.object # 0 /\ ~tc.dragging
    /\ Become(draggingChanged(
                [Cur EXCEPT !.tc.dragging = TRUE, !.tc.axis = TRUE], TRUE))
    /\ event' = NoEv("draggingChanged", "start")

\* the pointer goes up after it went down on the gizmo
PointerUp ==
    /\ tc.dragging
    /\ Become(draggingChanged(
                [Cur EXCEPT !.tc.dragging = FALSE, !.tc.axis = FALSE], FALSE))
    /\ event' = NoEv("draggingChanged", "end")

\* the state after the gizmo moved its object
Moved(mode, move) ==
    [Cur EXCEPT !.objects[tc.object] = GizmoApply(@, mode, move)]

\* the pointer moves during a drag: the gizmo changes its object, then the
\* 'objectChange' listener runs
GizmoMove(mode, move) ==
    /\ tc.object # 0 /\ tc.dragging /\ tc.axis
    /\ tc.mode = mode
    /\ Become(objectChange(Moved(mode, move)))
    /\ event' = Ev("objectChange", mode, selectedObjectData, ZeroVec,
                   GizmoApply(objects[tc.object], mode, move).position)

GizmoTranslate(p) == GizmoMove("translate", [position |-> p])
GizmoRotate(q) == GizmoMove("rotate", [turns |-> q])
GizmoScale(a, size) == GizmoMove("scale", [axis |-> a, size |-> size])

\* an animation frame
Frame ==
    /\ Become(animate(Cur))
    /\ event' = NoEv("animate", "ok")

\* the registered objects a pick ray can meet
Pickable ==
    {u \in {loadedObjects[k].object : k \in 1..Len(loadedObjects)} :
        ~objects[u].geom.empty}

\* an object and the parts below it, one to a level
NodesUnder(u) == {<<u>> \o [i \in 1..d |-> 1] : d \in 0..MaxDepth}

\* what a ray cast can return: nothing, or a nearest hit on a node of an
\* object of Pickable
Intersections == {<<>>} \cup {<<n>> : n \in UNION {NodesUnder(u) : u \in 1..MaxObjects}}

ClickNote(target, intersects) ==
    IF target # "canvas" \/ isDraggingTransform THEN "ignored"
    ELSE IF Len(intersects) = 0 THEN "empty"
    ELSE IF Len(intersects[1]) = 1 THEN "hit" ELSE "part"

Click(target, intersects) ==
    /\ Len(intersects) > 0 => intersects[1][1] \in Pickable
    /\ Become(onMouseClick(Cur, target, intersects))
    /\ event' = Ev("click", ClickNote(target, intersects),
                   selectedObjectData, ZeroVec, ZeroVec)

DimEvRead(di, read) == Ev("setDimensions", read.status, di, read.val, ZeroVec)
DimEv(di, ans) == DimEvRead(di, ReadDimensions(ans))

NoAnswers == [w |-> Cancel, h |-> Cancel, d |-> Cancel]

ListSelect(row) ==
    /\ row \in 1..Len(listRows)
    /\ Become(onListClick(Cur, row, FALSE, NoAnswers))
    /\ event' = Ev("listClick", "select", selectedObjectData, ZeroVec, ZeroVec)

ListEdit(row, ans) ==
    /\ row \in 1..Len(listRows)
    /\ Become(onListClick(Cur, row, TRUE, ans))
    /\ event' = DimEv(findObjectData(Cur, listRows[row].objectUuid), ans)

KeyDown(inField, key) ==
    /\ key # "d"
    /\ Become(onKeyDown(Cur, inField, key, NoAnswers))
    /\ event' = Ev("keyDown", IF inField THEN "ignored" ELSE key,
                   selectedObjectData, ZeroVec, ZeroVec)

KeyEdit(ans) ==
    /\ Become(onKeyDown(Cur, FALSE, "d", ans))
    /\ event' = IF selectedObjectData = 0 THEN NoEv("keyDown", "d")
                ELSE DimEv(selectedObjectData, ans)

\* ------------------------------------------------------------ inputs

Text1 == Typed(<<"1">>)
Text2 == Typed(<<"2">>)
TextHalf == Typed(<<"0", ".", "5">>)
TextZero == Typed(<<"0">>)
TextMinus == Typed(<<"-", "1">>)
TextWord == Typed(<<"a", "b", "c">>)
TextEmpty == Typed(<<>>)
TextTrailing == Typed(<<"2", "m">>)

Answers(a, b, c) == [w |-> a, h |-> b, d |-> c]

\* a unit cube centred on the origin of the file
Cube == Box(Vec(-50, -50, -50), Vec(50, 50, 50))
\* a 1 x 1 x 2 box standing on the file's origin plane
Slab == Box(Vec(-50, 0, -100), Vec(50, 100, 100))
\* a unit cube standing on the file's origin plane
Crate == Box(Vec(-50, 0, -50), Vec(50, 100, 50))
\* a flat square in the file's origin plane (no height)
Flat == Box(Vec(-50, 0, -50), Vec(50, 0, 50))

Keys == {"escape", "t", "r", "s", "q"}
Targets == {"info", "fileInput", "canvas", "other"}
Files == {"none", "other", "obj"}

\* ------------------------------------------------------------ the editor

\* Spec: the whole editor, every handler, for the claims on the registry, the
\* selection and the highlight boxes.  Meshes are crates asked for at their
\* natural size; a translate drag goes to one of two places (the second one
\* 0.05 above the ground, which the snap closes), a rotate drag makes a full
\* turn and a scale drag ends at the size it started from.

\* answers to the three prompts: valid, cancelled at each prompt, not a
\* number, zero, negative, empty
UIAnswers ==
    {Answers(Text1, Text1, Text1), Answers(Cancel, Text1, Text1),
     Answers(Text1, Cancel, Text1), Answers(Text1, Text1, Cancel),
     Answers(TextWord, Text1, Text1), Answers(Text1, TextZero, Text1),
     Answers(Text1, Text1, TextMinus), Answers(Text1, TextEmpty, Text1)}
UIPositions == {Vec(0, 0, 0), Vec(150, 5, 0)}

ParseFailure == [ok |-> FALSE, geom |-> EmptyBox]
Parsed(g) == [ok |-> TRUE, geom |-> g]

Next ==
    \/ \E file \in Files : FileSelect(file)
    \/ \E ans \in UIAnswers : LoadDone(Parsed(Crate), ans, MaxObjects)
    \/ LoadDone(ParseFailure, NoAnswers, MaxObjects)
    \/ LoadError
    \/ PointerDown
    \/ PointerUp
    \/ \E p \in UIPositions : GizmoTranslate(p)
    \/ GizmoRotate(4)
    \/ GizmoScale("y", 100)
    \/ Frame
    \/ \E target \in Targets, intersects \in Intersections :
          Click(target, intersects)
    \/ \E row \in 1..MaxObjects : ListSelect(row)
    \/ \E row \in 1..MaxObjects, ans \in UIAnswers : ListEdit(row, ans)
    \/ \E inField \in BOOLEAN, key \in Keys : KeyDown(inField, key)
    \/ \E ans \in UIAnswers : KeyEdit(ans)

Spec == Init /\ [][Next]_vars

\* ------------------------------------------------------------ one mesh

\* DimSpec: the session of one file, for the claims on dimensions.  The read
\* of the file is in flight at the start; the mesh is a centred cube, a
\* 1 x 1 x 2 slab, a flat square or has no vertices at all, and is asked for
\* and edited to differing sizes; drags move it, turn it by quarter turns and
\* rescale it.

DimAnswers ==
    {Answers(Text1, Text1, Text1), Answers(Text2, Text1, Text1),
     Answers(Text1, TextHalf, Text2), Answers(TextTrailing, Text1, Text1),
     Answers(Text1, Cancel, Text1), Answers(TextEmpty, Text1, Text1),
     Answers(Text1, Text1, TextZero)}
DimGeoms == {Cube, Slab, Flat, EmptyBox}
DimPositions == {Vec(0, 50, 0), Vec(100, 150, 0)}

\* an edit leaves the object at a height that depends on the height it had,
\* so that edits are drawn only while every object is within MaxDrift of the
\* ground plane
Settled == \A u \in 1..Len(objects) : Abs(objects[u].position.y) <= MaxDrift

\* the read of one file is in flight
DimInit ==
    /\ Is(handleFileSelect(Start, "obj"))
    /\ event = NoEv("fileSelect", "read")
    /\ timer = TimerStart

DimNext ==
    \/ \E g \in DimGeoms, ans \in DimAnswers : LoadDone(Parsed(g), ans, 1)
    \/ PointerDown
    \/ PointerUp
    \/ \E p \in DimPositions : GizmoTranslate(p)
    \/ GizmoRotate(1)
    \/ \E a \in {"x", "y"} : GizmoScale(a, 200)
    \/ \E key \in Keys : KeyDown(FALSE, key)
    \/ \E ans \in DimAnswers : Settled /\ KeyEdit(ans)
    \/ \E ans \in DimAnswers : Settled /\ ListEdit(1, ans)

DimSpec == DimInit /\ [][DimNext]_vars

\* ------------------------------------------------------------ two cubes

\* SnapSpec: two unit cubes imported one after the other at their natural
\* size, for the claims on snapping.  Both stand on the ground at the origin
\* when the session starts, the second one selected.  Translate drags take the
\* selected cube to the places of a grid chosen around the other cube's faces
\* and the ground: beside it with a gap or an overlap of 0.15 and a gap of
\* exactly 0.20 on x, beside it with a gap of 0.10 on z (and on both), below
\* the ground by 0.05, on it, above it by 0.05, 0.18 and exactly 0.20, and
\* 0.15 above the other cube's top; and two places where two alignments are
\* equally near: 0.15 from the other cube's face and 0.15 above the ground,
\* and 0.10 into the other cube on both x and z.

UnitAnswers == Answers(Text1, Text1, Text1)

\* a file is chosen, read and imported with these answers
ImportAs(w, geom, ans) ==
    ReaderOnload(handleFileSelect(w, "obj"), Parsed(geom), ans)

SnapStart == ImportAs(ImportAs(Start, Cube, UnitAnswers), Cube, UnitAnswers)

SnapGrid ==
    {Vec(px, py, 0) : px \in {0, 85, 115, 120}, py \in {45, 50, 55, 68, 70, 165}}
    \cup {Vec(0, py, 110) : py \in {50, 68, 70}}
    \cup {Vec(115, 70, 110), Vec(115, 65, 0), Vec(90, 70, 90)}

SnapInit ==
    /\ Is(SnapStart)
    /\ event = Ev("import", "ok", Len(SnapStart.loadedObjects),
                  ReadDimensions(UnitAnswers).val, ZeroVec)
    /\ timer = TimerStart

SnapNext ==
    \/ PointerDown
    \/ PointerUp
    \/ \E p \in SnapGrid : GizmoTranslate(p)
    \/ \E row \in 1..Len(listRows) : ListSelect(row)

SnapSpec == SnapInit /\ [][SnapNext]_vars

\* ------------------------------------------------------------ imports that throw

\* FaultSpec: imports, selection and drag start / end in an environment where
\* a statement of the try block of reader.onload may throw after the mesh
\* parsed and the prompts were answered, for the claim on the failure paths
\* of an import.  At most MaxObjects meshes are created.

FaultNext ==
    \/ \E file \in Files : FileSelect(file)
    \/ Len(objects) < MaxObjects /\ LoadDone(Parsed(Crate), UnitAnswers, MaxObjects)
    \/ LoadDone(ParseFailure, NoAnswers, MaxObjects)
    \/ LoadError
    \/ \E k \in 1..Len(ImportSteps) :
          LoadFault(Crate, UnitAnswers, ImportSteps[k], MaxObjects)
    \/ PointerDown
    \/ PointerUp
    \/ \E target \in Targets, intersects \in Intersections :
          Click(target, intersects)
    \/ \E row \in 1..MaxObjects : ListSelect(row)
    \/ \E inField \in BOOLEAN, key \in Keys : KeyDown(inField, key)

FaultSpec == Init /\ [][FaultNext]_vars

\* ------------------------------------------------------------ cube and slab

\* HelperSpec: a cube and a 1 x 1 x 2 slab imported one after the other, for
\* the claim on the extents the highlight boxes cache.  Either is selected
\* from the list and dragged away from the origin and off the ground; the
\* slab is turned by quarter turns, the cube is scaled to twice its height
\* and edited from its row, also while the slab is being dragged; frames are
\* drawn in between.

HelperStart ==
    ImportAs(ImportAs(Start, Cube, UnitAnswers), Slab, UnitAnswers)

HelperInit ==
    /\ Is(HelperStart)
    /\ event = Ev("import", "ok", Len(HelperStart.loadedObjects),
                  ReadDimensions(UnitAnswers).val, ZeroVec)
    /\ timer = TimerStart

HelperNext ==
    \/ PointerDown
    \/ PointerUp
    \/ GizmoTranslate(Vec(100, 150, 0))
    \/ tc.object = 2 /\ GizmoRotate(1)
    \/ tc.object = 1 /\ GizmoScale("y", 200)
    \/ Frame
    \/ \E key \in Keys : KeyDown(FALSE, key)
    \/ \E row \in 1..Len(listRows) : ListSelect(row)
    \/ Settled /\ ListEdit(1, Answers(Text2, Text1, Text1))

HelperSpec == HelperInit /\ [][HelperNext]_vars

\* ------------------------------------------------------------ the timer page

\* the variables of the editor, which the timer page leaves alone
editor == <<objects, sceneObjects, boxHelpers, sceneHelpers, listRows,
            loadedObjects, selectedObjectData, objectNameCounter,
            isDraggingTransform, orbitEnabled, tc, spinner, pendingReads>>

\* a handler of the timer page ran and left the page in state t
TimerDo(t, op, note) ==
    /\ timer' = t
    /\ event' = NoEv(op, note)
    /\ UNCHANGED editor

\* clicks on the buttons; the timer is started while fewer than MaxBeeps
\* expiries have happened
StartClick ==
    /\ timer.isPaused => timer.beeps < MaxBeeps
    /\ TimerDo(startTimer(timer), "start",
               IF timer.isPaused THEN "started" ELSE "running")
PauseClick == TimerDo(pauseTimer(timer), "pause", "click")
ResetClick == TimerDo(resetTimer(timer), "reset", "click")
StopClick == TimerDo(stopTimer(timer), "stop", "click")
ModeClick(mode) == TimerDo(switchMode(timer, mode), "switchMode", mode)
ApplyClick(typed) == TimerDo(applySettings(timer, typed), "applySettings", "click")

\* a second has passed: every interval the page has running calls countdown
Tick ==
    /\ \E id \in timer.scheduled :
          TimerDo(countdown(timer), "countdown",
                  IF timer.timeLeft <= 0 THEN "expired" ELSE "tick")

\* texts typed into the three duration fields: one minute each, a fraction
\* (read as 1), zero, nothing, a negative number
FieldTexts(a, b, c) == [pomodoro |-> a, shortBreak |-> b, longBreak |-> c]
OneMinute == FieldTexts(<<"1">>, <<"1">>, <<"1">>)
SettingsTyped ==
    {OneMinute,
     FieldTexts(<<"1", ".", "5">>, <<"1">>, <<"1">>),
     FieldTexts(<<"0">>, <<"1">>, <<"1">>),
     FieldTexts(<<"1">>, <<>>, <<"1">>),
     FieldTexts(<<"1">>, <<"1">>, <<"-", "3">>)}

\* TimerSpec: the timer page with every button and the ticks of the
\* intervals it has running, for the claim on the single interval.

TimerInit ==
    /\ Is(Start)
    /\ event = NoEv("initializeTimer", "ok")
    /\ timer = TimerStart

TimerNext ==
    \/ StartClick
    \/ PauseClick
    \/ ResetClick
    \/ StopClick
    \/ \E mode \in Modes : ModeClick(mode)
    \/ \E typed \in SettingsTyped : ApplyClick(typed)
    \/ Tick

TimerSpec == TimerInit /\ [][TimerNext]_vars

\* CountdownSpec: a timer that was started and is left alone: the only
\* steps are the ticks of its interval and, once it has expired, a click on
\* start.  The timer was started from the page as loaded, after a switch of
\* mode, after the durations were set to one minute, or after a pause one
\* second into a run.  A running interval keeps firing (weak fairness of Tick).

Startable ==
    {TimerStart, applySettings(TimerStart, OneMinute),
     pauseTimer(countdown(startTimer(applySettings(TimerStart, OneMinute))))}
    \cup {switchMode(TimerStart, mode) : mode \in Modes}

CountdownInit ==
    /\ Is(Start)
    /\ event = NoEv("start", "started")
    /\ timer \in {startTimer(t) : t \in Startable}

Restart == timer.timeLeft = 0 /\ timer.isPaused /\ StartClick

CountdownNext ==
    \/ Tick
    \/ Restart

CountdownSpec == CountdownInit /\ [][CountdownNext]_vars /\ WF_vars(Tick)

\* ------------------------------------------------------------ properties

Registered == 1..Len(loadedObjects)
RowOf(k) == listRows[loadedObjects[k].listItem]
HelperOf(k) == boxHelpers[loadedObjects[k].boxHelper]

\* C1: at most one registered object is marked selected, the one that
\* selectedObjectData names, and whenever no drag is in progress that object
\* (if any) has a visible, active-coloured highlight box while the highlight
\* box of every other object is not active-coloured.
C1_SelectionInvariant ==
    /\ \A k \in Registered : RowOf(k).selected <=> k = selectedObjectData
    /\ ~isDraggingTransform =>
         \A k \in Registered :
            IF k = selectedObjectData
            THEN /\ HelperOf(k).visible
                 /\ HelperOf(k).color = BOX_HELPER_COLOR_ACTIVE
            ELSE HelperOf(k).color # BOX_HELPER_COLOR_ACTIVE

\* a click on a list row has moved the selection from one object to another
C1_Witness ==
    /\ event.op = "listClick"
    /\ event.obj # 0 /\ selectedObjectData # 0
    /\ event.obj # selectedObjectData
    /\ ~isDraggingTransform
    /\ RowOf(selectedObjectData).selected /\ ~RowOf(event.obj).selected
    /\ HelperOf(selectedObjectData).color = BOX_HELPER_COLOR_ACTIVE

\* the last handler was the 'objectChange' listener in translate mode, that
\* is, one call of applySnapAdjustment on the dragged object
SnapStep == event.op = "objectChange" /\ event.note = "translate"

\* the dragged object, and its box where the gizmo put it, before the snap
Dragged == loadedObjects[event.obj].object
MovedBox == getObjectAABB([objects[Dragged] EXCEPT !.position = event.moved])

\* the two pairs of facing faces of boxes sb and tb on axis i: what sb has
\* to move by for the pair to coincide
FaceGaps(sb, tb, i) == {tb.min[i] - sb.max[i], tb.max[i] - sb.min[i]}

OverlapOnOthers(sb, tb, i) ==
    \A j \in Axes \ {i} : sb.min[j] < tb.max[j] /\ sb.max[j] > tb.min[j]

\* the alignments of box sb with the other objects: the boxes overlap on two
\* axes and a pair of facing faces is less than SNAP_THRESHOLD apart on the
\* third
AlignmentsWith(sb, u, tb) ==
    IF tb.empty THEN {}
    ELSE UNION {{[axis |-> i, target |-> u, delta |-> d] :
                    d \in {g \in FaceGaps(sb, tb, i) : Abs(g) < SNAP_THRESHOLD}} :
                i \in {j \in Axes : OverlapOnOthers(sb, tb, j)}}
Alignments(sb) ==
    UNION {AlignmentsWith(sb, u, getObjectAABB(objects[u])) :
              u \in (1..Len(objects)) \ {Dragged}}

\* C2: when the moved box and another object's box overlap on two axes and
\* their facing faces are less than SNAP_THRESHOLD apart on the third, one
\* call of applySnapAdjustment makes those faces coincide and leaves the
\* position on the other two axes as it was.  Stated for the moves where the
\* alignment has no competitor: it is the only alignment there is, and the
\* ground asks for no move (the box stands on it, or is a threshold or more
\* away from it).
C2_FacesCoincide ==
    SnapStep =>
        \A a \in Alignments(MovedBox) :
            (/\ Alignments(MovedBox) = {a}
             /\ (MovedBox.min.y = 0 \/ Abs(MovedBox.min.y) >= SNAP_THRESHOLD))
            => objects[Dragged].position =
                  [event.moved EXCEPT ![a.axis] = @ + a.delta]

\* neither another object nor the ground is within the threshold of the
\* moved box
NoAlignment ==
    /\ Alignments(MovedBox) = {}
    /\ Abs(MovedBox.min.y) >= SNAP_THRESHOLD

\* C3: when no alignment with another object and no ground alignment of the
\* moved box is within SNAP_THRESHOLD, applySnapAdjustment selects no delta:
\* the dragged object stays where the gizmo put it and the transform of every
\* other object is unchanged.
C3_NoSnapNoChange ==
    /\ []((SnapStep /\ NoAlignment) => objects[Dragged].position = event.moved)
    /\ [][SnapStep' => \A u \in (1..Len(objects)) \ {Dragged'} :
                          objects'[u] = objects[u]]_vars

\* a move was left as it was, among them with a gap of exactly the threshold
\* to the other cube
C3_Witness ==
    /\ SnapStep /\ NoAlignment
    /\ objects[Dragged].position = event.moved
    /\ \E u \in (1..Len(objects)) \ {Dragged} :
          /\ SNAP_THRESHOLD \in FaceGaps(getObjectAABB(objects[u]), MovedBox, "x")
          /\ OverlapOnOthers(MovedBox, getObjectAABB(objects[u]), "x")

\* the bottom of the moved box is less than SNAP_THRESHOLD from the ground
\* and nearer to it than the box is to any alignment with another object
GroundNearest ==
    /\ Abs(MovedBox.min.y) < SNAP_THRESHOLD
    /\ \A a \in Alignments(MovedBox) : Abs(MovedBox.min.y) < Abs(a.delta)

\* C4: when the moved box's minimum Y is within SNAP_THRESHOLD of 0 and its
\* distance to the ground is smaller than the delta of every alignment with
\* another object, applySnapAdjustment moves the object along Y only, and its
\* box minimum Y becomes 0.
C4_GroundSnap ==
    (SnapStep /\ GroundNearest) =>
        /\ objects[Dragged].position =
              [event.moved EXCEPT !.y = @ - MovedBox.min.y]
        /\ getObjectAABB(objects[Dragged]).min.y = 0

\* a box off the ground was brought onto it although another object's face
\* was within the threshold too
C4_Witness ==
    /\ SnapStep /\ GroundNearest
    /\ MovedBox.min.y # 0
    /\ Alignments(MovedBox) # {}
    /\ objects[Dragged].position.y # event.moved.y
    /\ getObjectAABB(objects[Dragged]).min.y = 0

\* C5: a second call of applySnapAdjustment on the same object, with no move
\* in between, leaves the position the first call gave it (and the rest of
\* the editor's state).
C5_SnapIdempotent ==
    SnapStep => Is(applySnapAdjustment(Cur, Dragged))

\* the first call moved the object to another object's face
C5_Witness ==
    /\ SnapStep
    /\ objects[Dragged].position # event.moved
    /\ objects[Dragged].position.y = event.moved.y
    /\ Is(applySnapAdjustment(Cur, Dragged))

\* the last handler registered an object; the object
ImportedOk == event.op = "import" /\ event.note = "ok"
Imported == objects[loadedObjects[event.obj].object]

\* the natural extent of a mesh on axis i
Extent(geom, i) == IF geom.empty THEN 0 ELSE geom.max[i] - geom.min[i]
Solid(geom) == \A i \in Axes : Extent(geom, i) > 0

\* C6 as the specification states it: after a successful import with the
\* requested dimensions (W, H, D), the computed dimensions of the object are
\* (W, H, D) and its box minimum Y is 0.
C6_ImportRoundTrip ==
    ImportedOk =>
        /\ getObjectDimensions(Imported) = event.req
        /\ ~getObjectAABB(Imported).empty
        /\ getObjectAABB(Imported).min.y = 0

\* C6, amended: after a successful import with the requested dimensions
\* (W, H, D), the computed dimension of the object equals the requested one
\* on every axis on which the mesh has a natural extent and is 0 on an axis
\* on which it has none; and the box minimum Y of a mesh that has vertices
\* is 0.
C6_ImportRoundTripExtent ==
    ImportedOk =>
        /\ \A i \in Axes :
              getObjectDimensions(Imported)[i] =
                 IF Extent(Imported.geom, i) = 0 THEN 0 ELSE event.req[i]
        /\ ~Imported.geom.empty =>
              /\ ~getObjectAABB(Imported).empty
              /\ getObjectAABB(Imported).min.y = 0

\* a 1 x 1 x 2 mesh was imported at three differing sizes
C6_Witness ==
    /\ ImportedOk
    /\ Solid(Imported.geom)
    /\ Extent(Imported.geom, "z") # Extent(Imported.geom, "x")
    /\ event.req.x # event.req.y /\ event.req.y # event.req.z
    /\ getObjectDimensions(Imported) = event.req
    /\ getObjectAABB(Imported).min.y = 0

\* the last handler set the dimensions of an object; the object
EditedOk == event.op = "setDimensions" /\ event.note = "ok"
Edited == objects[loadedObjects[event.obj].object]

\* C7: after promptAndSetDimensions with positive (W2, H2, D2) the computed
\* dimensions of the object are (W2, H2, D2), whatever dimension edits and
\* translate, rotate and scale drags came before.  Stated for the meshes with
\* a natural extent on every axis.
C7_EditRoundTrip ==
    (EditedOk /\ Solid(Edited.geom)) => getObjectDimensions(Edited) = event.req

\* C8: every entry of loadedObjects has one list row and one highlight box in
\* the scene, and every list row and every highlight box belongs to exactly
\* one entry.
C8_RegistryOneToOne ==
    /\ \A k \in Registered :
          /\ loadedObjects[k].listItem \in 1..Len(listRows)
          /\ RowOf(k).objectUuid = loadedObjects[k].object
          /\ loadedObjects[k].boxHelper \in sceneHelpers
          /\ loadedObjects[k].boxHelper \in 1..Len(boxHelpers)
          /\ HelperOf(k).object = loadedObjects[k].object
          /\ loadedObjects[k].object \in sceneObjects
    /\ \A row \in 1..Len(listRows) :
          Cardinality({k \in Registered : loadedObjects[k].listItem = row}) = 1
    /\ \A h \in sceneHelpers \cup (1..Len(boxHelpers)) :
          Cardinality({k \in Registered : loadedObjects[k].boxHelper = h}) = 1
    /\ \A j, k \in Registered :
          loadedObjects[j].object = loadedObjects[k].object => j = k

\* a second object was registered
C8_Witness ==
    /\ ImportedOk
    /\ event.obj >= 2
    /\ Len(listRows) = Len(loadedObjects)
    /\ Cardinality(sceneHelpers) = Len(loadedObjects)

\* the uuids of the registered objects
RegisteredObjects == {loadedObjects[k].object : k \in Registered}

\* the selection goes from one registered object to another
SelectionMoves ==
    /\ selectedObjectData # 0 /\ selectedObjectData' # 0
    /\ selectedObjectData' # selectedObjectData

\* C9: selectedObjectData is null or an entry of loadedObjects; selectObject
\* on a different registered object leaves the previous selection without
\* its selected mark and its active highlight; selectObject on an object
\* that is not registered changes nothing.
C9_SelectionInRegistry ==
    /\ [](selectedObjectData \in {0} \cup Registered)
    /\ [][SelectionMoves =>
            /\ ~listRows'[loadedObjects[selectedObjectData].listItem].selected
            /\ boxHelpers'[loadedObjects[selectedObjectData].boxHelper].color
                  # BOX_HELPER_COLOR_ACTIVE
            /\ listRows'[loadedObjects'[selectedObjectData'].listItem].selected]_vars
    /\ [](\A u \in 0..(Len(objects) + 1) :
             u \notin RegisteredObjects => selectObject(Cur, u) = Cur)

\* a click on the canvas has met an object other than the selected one
C9_Witness ==
    /\ event.op = "click" /\ event.note = "hit"
    /\ event.obj # 0 /\ selectedObjectData # 0
    /\ event.obj # selectedObjectData
    /\ ~RowOf(event.obj).selected
    /\ selectObject(Cur, Len(objects) + 1) = Cur

\* the text has no numeral at its start
NonNumeric(s) ==
    ~\E i \in 1..Len(s) :
        /\ IsDigit(s[i])
        /\ \A j \in 1..(i - 1) :
              \/ j = 1 /\ s[j] \in {"-", "+"}
              \/ j = i - 1 /\ s[j] = "."

\* a prompt was cancelled, or a dimension is not a number or not positive
Rejected(ans) ==
    \E a \in {ans.w, ans.h, ans.d} :
        a.cancelled \/ NonNumeric(a.text) \/ parseFloat(a.text).val <= 0

\* the answers drawn that an import has to reject
RejectedAnswers == {ans \in UIAnswers : Rejected(ans)}

\* C10: when a prompt of an import is cancelled or a requested dimension is
\* not a number or not positive, the registry, the list rows, the highlight
\* boxes, the scene's objects, the selection and the name counter are
\* unchanged and the loading spinner is hidden.
C10_AbortedImport ==
    [][event'.op = "import" =>
          \A ans \in RejectedAnswers :
             LoadDone(Parsed(Crate), ans, MaxObjects) =>
                /\ loadedObjects' = loadedObjects
                /\ listRows' = listRows
                /\ boxHelpers' = boxHelpers /\ sceneHelpers' = sceneHelpers
                /\ objects' = objects /\ sceneObjects' = sceneObjects
                /\ selectedObjectData' = selectedObjectData
                /\ objectNameCounter' = objectNameCounter
                /\ spinner' = FALSE]_vars

\* an import was aborted with an object registered and selected
C10_Witness ==
    /\ event.op = "import"
    /\ event.note \in {"cancelled", "invalid"}
    /\ ~spinner
    /\ Len(loadedObjects) >= 1 /\ selectedObjectData # 0
    /\ objectNameCounter = Len(loadedObjects)

\* the last handler was an import that failed: the read failed, the parse
\* threw, or a statement after it threw
FailedImport ==
    /\ event.op = "import"
    /\ event.note \in {"readError", "parseError", "fault"}

\* every highlight box and object in the scene and every list row is that of
\* a registry entry
NoOrphans ==
    /\ sceneHelpers \subseteq {loadedObjects[k].boxHelper : k \in Registered}
    /\ sceneObjects \subseteq RegisteredObjects
    /\ \A row \in 1..Len(listRows) :
          \E k \in Registered : loadedObjects[k].listItem = row

RejectedEdits == {ans \in DimAnswers : Rejected(ans)}

\* C12: promptAndSetDimensions with a prompt cancelled or a requested
\* dimension that is not a number or not positive leaves the object's scale
\* and position (every object's transform), the list labels and the
\* highlight boxes unchanged.
C12_RejectedEdit ==
    [][event'.op = "setDimensions" =>
          \A ans \in RejectedEdits :
             (KeyEdit(ans) \/ ListEdit(1, ans)) =>
                /\ objects' = objects
                /\ listRows' = listRows
                /\ boxHelpers' = boxHelpers]_vars

\* an edit was rejected for an object that a drag had turned and that stood
\* off the ground
C12_Witness ==
    /\ event.op = "setDimensions"
    /\ event.note \in {"cancelled", "invalid"}
    /\ Edited.rotation # 0
    /\ getObjectAABB(Edited).min.y # 0
    /\ Solid(Edited.geom)

\* C13: the highlight box of an object that is not selected is visible
\* exactly when a drag is in progress and the gizmo is in translate mode, and
\* when visible it has the inactive colour.
C13_OtherHelpers ==
    \A k \in Registered \ {selectedObjectData} :
        /\ HelperOf(k).visible <=> (isDraggingTransform /\ tc.mode = "translate")
        /\ HelperOf(k).visible => HelperOf(k).color = BOX_HELPER_COLOR_INACTIVE

\* the key t has brought the gizmo back to translate mode during a drag, and
\* another object's box shows
C13_Witness ==
    /\ event.op = "keyDown" /\ event.note = "t"
    /\ isDraggingTransform
    /\ \E k \in Registered \ {selectedObjectData} :
          /\ HelperOf(k).visible
          /\ HelperOf(k).color = BOX_HELPER_COLOR_INACTIVE

C15_EmptyClickDeselects ==
    (event.op = "click" /\ event.note = "empty")
       => /\ selectedObjectData = 0
          /\ tc.object = 0
          /\ \A k \in Registered : ~RowOf(k).selected

\* an object was selected when the click on empty space came
C15_Witness ==
    /\ event.op = "click" /\ event.note = "empty"
    /\ event.obj # 0
    /\ selectedObjectData = 0

\* C16: a click whose nearest hit is a registered object or a part below it
\* selects that registered object, and the walk up the parent chain ends on
\* a registered object or on the scene, which selects nothing.
C16_ClickSelectsRoot ==
    /\ [][event'.op = "click" /\ event'.note \in {"hit", "part"} =>
             \A intersects \in Intersections \ {<<>>} :
                (/\ ClickNote("canvas", intersects) = event'.note
                 /\ tc'.object # intersects[1][1]
                       \/ selectedObjectData' \notin 1..Len(loadedObjects')
                       \/ loadedObjects'[selectedObjectData'].object
                             # intersects[1][1])
                   => ~Click("canvas", intersects)]_vars
    /\ [](\A u \in 1..(MaxObjects + 1) : \A node \in NodesUnder(u) :
             ClickedRoot(Cur, node)
                = IF u \in RegisteredObjects THEN <<u>> ELSE <<>>)

\* a click on a part of an object other than the selected one has selected
\* the object the part belongs to
C16_Witness ==
    /\ event.op = "click" /\ event.note = "part"
    /\ event.obj # 0 /\ selectedObjectData # 0
    /\ event.obj # selectedObjectData
    /\ tc.object = loadedObjects[selectedObjectData].object

\* The alignments of a call of applySnapAdjustment on box sb, numbered in
\* the order the specification gives them: the registry entries in order,
\* for each the faces on x, z and y (the target's lower face against sb's
\* upper one, then the target's upper face against sb's lower one), and the
\* ground last.  An alignment is eligible when it is less than
\* SNAP_THRESHOLD away and, for a face, the boxes overlap on the other axes.
FaceAxis == <<"x", "x", "z", "z", "y", "y">>
FaceDelta(sb, tb, a, j) ==
    IF j % 2 = 1 THEN tb.min[a] - sb.max[a] ELSE tb.max[a] - sb.min[a]
FaceAlignment(sb, u, tb, a, j) ==
    [axis |-> a, delta |-> FaceDelta(sb, tb, a, j),
     eligible |-> /\ u # Dragged
                  /\ ~tb.empty
                  /\ Abs(FaceDelta(sb, tb, a, j)) < SNAP_THRESHOLD
                  /\ OverlapOnOthers(sb, tb, a)]
GroundAlignment(sb) ==
    [axis |-> "y", delta |-> -sb.min.y,
     eligible |-> Abs(sb.min.y) < SNAP_THRESHOLD]
AlignmentNo(sb, i) ==
    IF i = 6 * Len(loadedObjects) + 1 THEN GroundAlignment(sb)
    ELSE LET u == loadedObjects[((i - 1) \div 6) + 1].object
             j == ((i - 1) % 6) + 1
         IN  FaceAlignment(sb, u, getObjectAABB(objects[u]), FaceAxis[j], j)
Eligible(sb) ==
    {i \in 1..(6 * Len(loadedObjects) + 1) : AlignmentNo(sb, i).eligible}
\* the eligible alignments of smallest absolute delta, and the first of them
Nearest(sb) ==
    {i \in Eligible(sb) :
        \A j \in Eligible(sb) :
           Abs(AlignmentNo(sb, i).delta) <= Abs(AlignmentNo(sb, j).delta)}
FirstNearest(sb) == {i \in Nearest(sb) : \A j \in Nearest(sb) : i <= j}

\* C17: the correction of one call of applySnapAdjustment is the eligible
\* alignment of smallest absolute delta, the first in iteration order on a
\* tie, and no correction when no alignment is eligible: an alignment with a
\* candidate that does not overlap the moved box on the other two axes is
\* never applied.
C17_NearestEligible ==
    SnapStep =>
        IF Eligible(MovedBox) = {}
        THEN objects[Dragged].position = event.moved
        ELSE \A i \in FirstNearest(MovedBox) :
                objects[Dragged].position =
                   [event.moved EXCEPT ![AlignmentNo(MovedBox, i).axis] =
                                          @ + AlignmentNo(MovedBox, i).delta]

\* two eligible alignments on different axes were equally near, nearer than
\* any other, and the first of them was applied
C17_Witness ==
    /\ SnapStep
    /\ \E i \in FirstNearest(MovedBox) : \E j \in Nearest(MovedBox) :
          /\ AlignmentNo(MovedBox, i).axis # AlignmentNo(MovedBox, j).axis
          /\ AlignmentNo(MovedBox, i).delta # 0
          /\ objects[Dragged].position =
                [event.moved EXCEPT ![AlignmentNo(MovedBox, i).axis] =
                                       @ + AlignmentNo(MovedBox, i).delta]

\* the editor after the gizmo put its object at position p, before the
\* 'objectChange' listener runs
BeforeSnap(p) == [Cur EXCEPT !.objects[tc.object].position = p]
ChangedAxes(p, q) == {i \in Axes : p[i] # q[i]}

\* C18: one call of applySnapAdjustment changes the position of the moving
\* object on at most one axis and nothing else of the editor's state; over
\* the whole 'objectChange' step the objects' rotations, scales and meshes,
\* the other objects' positions, the registry and the selection are
\* unchanged.
C18_OneAxisOnly ==
    [][SnapStep' =>
          /\ applySnapAdjustment(BeforeSnap(event'.moved), tc.object)
                = [BeforeSnap(event'.moved) EXCEPT
                      !.objects[tc.object].position =
                          objects'[tc.object].position]
          /\ Cardinality(ChangedAxes(event'.moved,
                                     objects'[tc.object].position)) <= 1
          /\ objects' = [objects EXCEPT ![tc.object].position =
                                           objects'[tc.object].position]
          /\ loadedObjects' = loadedObjects
          /\ selectedObjectData' = selectedObjectData]_vars

\* a call moved the dragged object on x alone, onto a face of the other cube
C18_Witness ==
    /\ SnapStep
    /\ ChangedAxes(event.moved, objects[Dragged].position) = {"x"}
    /\ \E u \in (1..Len(objects)) \ {Dragged} :
          0 \in FaceGaps(getObjectAABB(objects[Dragged]),
                         getObjectAABB(objects[u]), "x")

\* in editor w no drag is in progress, the camera orbits and no helper of a
\* non-selected object shows
DragCleared(w) ==
    /\ ~w.isDraggingTransform
    /\ w.orbitEnabled
    /\ \A k \in 1..Len(w.loadedObjects) :
          k # w.selectedObjectData
             => ~w.boxHelpers[w.loadedObjects[k].boxHelper].visible

\* pointer moves of a gizmo drag, one for each mode
SomeMoves ==
    {[position |-> p, turns |-> 1, axis |-> "y", size |-> 200] :
        p \in UIPositions}

\* C19: deselectObject run while a drag is in progress leaves the drag flag
\* false, the camera orbit enabled and every non-selected object's helper
\* hidden, by itself and at the end of every handler that runs it (Escape,
\* a list click or an import selecting another object); and while the flag is
\* false the 'objectChange' listener changes nothing after a gizmo move.
C19_InterruptedDrag ==
    /\ [](isDraggingTransform => DragCleared(deselectObject(Cur)))
    /\ [][(/\ isDraggingTransform
            /\ \/ selectedObjectData' # selectedObjectData
               \/ event'.op = "keyDown" /\ event'.note = "escape")
              => DragCleared(Cur)']_vars
    /\ []((~isDraggingTransform /\ tc.object # 0) =>
             \A move \in SomeMoves :
                objectChange(Moved(tc.mode, move)) = Moved(tc.mode, move))

\* a list click selected the other object while the pointer was down on the
\* gizmo: the drag is reset, and a move that the snap would correct during a
\* drag is left alone
C19_Witness ==
    /\ event.op = "listClick"
    /\ event.obj # 0 /\ selectedObjectData # 0
    /\ event.obj # selectedObjectData
    /\ tc.dragging
    /\ DragCleared(Cur)
    /\ \E move \in SomeMoves :
          /\ objectChange(Moved(tc.mode, move)) = Moved(tc.mode, move)
          /\ applySnapAdjustment(Moved(tc.mode, move), tc.object)
                # Moved(tc.mode, move)

\* C20: in every state the camera orbit is enabled exactly when the drag
\* flag is false; a drag start sets the flag and disables the orbit, a drag
\* end clears the flag and enables the orbit, and the only other steps that
\* change either are those that run deselectObject during a drag, which
\* clear the flag.
C20_OrbitIffNotDragging ==
    /\ [](orbitEnabled <=> ~isDraggingTransform)
    /\ [][/\ (event'.op = "draggingChanged" /\ event'.note = "start")
               => (isDraggingTransform' /\ ~orbitEnabled')
          /\ (event'.op = "draggingChanged" /\ event'.note = "end")
               => (~isDraggingTransform' /\ orbitEnabled')
          /\ (/\ event'.op # "draggingChanged"
              /\ \/ isDraggingTransform' # isDraggingTransform
                 \/ orbitEnabled' # orbitEnabled)
               => /\ isDraggingTransform /\ ~isDraggingTransform'
                  /\ \/ selectedObjectData' # selectedObjectData
                     \/ event'.op = "keyDown" /\ event'.note = "escape"]_vars

\* a drag is in progress after a drag was ended before: the orbit is off
C20_Witness ==
    /\ event.op = "draggingChanged" /\ event.note = "start"
    /\ isDraggingTransform /\ ~orbitEnabled
    /\ \E k \in Registered : objects[loadedObjects[k].object].position.x # 0

\* the last handler was the 'objectChange' listener in the given mode
MoveStep(mode) == event.op = "objectChange" /\ event.note = mode

\* C21: after a gizmo move handled during a drag in scale mode the selected
\* object's box minimum Y is 0 when its mesh is not empty, and its position
\* has changed on y at most; after one in rotate mode its position is the
\* one it had.
C21_ScaleRegrounds ==
    /\ MoveStep("scale") =>
          /\ ~objects[Dragged].geom.empty
                => getObjectAABB(objects[Dragged]).min.y = 0
          /\ objects[Dragged].position.x = event.moved.x
          /\ objects[Dragged].position.z = event.moved.z
    /\ MoveStep("rotate") => objects[Dragged].position = event.moved

\* a scale drag brought an object that was off the ground back onto it
C21_Witness ==
    /\ MoveStep("scale")
    /\ isDraggingTransform
    /\ objects[Dragged].position.y # event.moved.y
    /\ objects[Dragged].position.x # 0
    /\ getObjectAABB(objects[Dragged]).min.y = 0

\* C22: a valid edit of an object's dimensions leaves its position on x and z
\* as it was, puts its box minimum Y at 0 (for a mesh that is not empty), and
\* leaves the selection, the registry and every other object unchanged.
C22_EditRegrounds ==
    [][(event'.op = "setDimensions" /\ event'.note = "ok") =>
          /\ Edited'.position.x = objects[loadedObjects[event'.obj].object].position.x
          /\ Edited'.position.z = objects[loadedObjects[event'.obj].object].position.z
          /\ ~Edited'.geom.empty => getObjectAABB(Edited').min.y = 0
          /\ selectedObjectData' = selectedObjectData
          /\ loadedObjects' = loadedObjects
          /\ \A u \in (1..Len(objects)) \ {loadedObjects[event'.obj].object} :
                objects'[u] = objects[u]]_vars

\* the extents helper of entry k caches are the box of its object (a mesh
\* without vertices has no box)
HelperFresh(k) ==
    ~getObjectAABB(objects[loadedObjects[k].object]).empty =>
        /\ HelperOf(k).box.min = getObjectAABB(objects[loadedObjects[k].object]).min
        /\ HelperOf(k).box.max = getObjectAABB(objects[loadedObjects[k].object]).max

\* C23: after every handler the extents cached by the helper of the selected
\* object, and by every visible helper, are the current bounding box of the
\* helper's object.
C23_HelpersFresh ==
    \A k \in Registered :
        (k = selectedObjectData \/ HelperOf(k).visible) => HelperFresh(k)

\* during a translate drag of the turned slab the helper of the cube shows,
\* with the extents of the cube after an edit that widened and sank it
C23_Witness ==
    /\ MoveStep("translate")
    /\ objects[Dragged].rotation # 0
    /\ objects[Dragged].position.x # 0
    /\ HelperFresh(selectedObjectData)
    /\ \E k \in Registered \ {selectedObjectData} :
          /\ HelperOf(k).visible
          /\ HelperOf(k).box.min.y # 0
          /\ HelperOf(k).box.max.x - HelperOf(k).box.min.x = 200
          /\ HelperFresh(k)

\* the face alignments of box sb that pass the overlap test and are exactly
\* SNAP_THRESHOLD away
AtThreshold(sb) ==
    {i \in 1..(6 * Len(loadedObjects)) :
        LET u == loadedObjects[((i - 1) \div 6) + 1].object
            j == ((i - 1) % 6) + 1
            tb == getObjectAABB(objects[u])
        IN  /\ u # Dragged
            /\ ~tb.empty
            /\ Abs(FaceDelta(sb, tb, FaceAxis[j], j)) = SNAP_THRESHOLD
            /\ OverlapOnOthers(sb, tb, FaceAxis[j])}

\* C24 as the specification states it: with no alignment nearer than the
\* threshold, a face alignment of exactly the threshold is applied, and a
\* ground alignment of exactly the threshold is not.
C24_BoundaryDiffers ==
    (SnapStep /\ Eligible(MovedBox) = {}) =>
        /\ AtThreshold(MovedBox) # {} =>
              \E i \in AtThreshold(MovedBox) :
                 objects[Dragged].position =
                    [event.moved EXCEPT ![AlignmentNo(MovedBox, i).axis] =
                                           @ + AlignmentNo(MovedBox, i).delta]
        /\ (AtThreshold(MovedBox) = {} /\ Abs(MovedBox.min.y) = SNAP_THRESHOLD)
              => objects[Dragged].position = event.moved

\* C24, amended: both tests are strict.  No correction is ever as large as
\* the threshold, and with no alignment nearer than the threshold a face
\* alignment or a ground alignment of exactly the threshold leaves the
\* object where the gizmo put it.
C24_BoundaryStrict ==
    SnapStep =>
        /\ \A a \in Axes :
              Abs(objects[Dragged].position[a] - event.moved[a]) < SNAP_THRESHOLD
        /\ (/\ Eligible(MovedBox) = {}
            /\ AtThreshold(MovedBox) # {} \/ Abs(MovedBox.min.y) = SNAP_THRESHOLD)
              => objects[Dragged].position = event.moved

\* the moved box was exactly the threshold from a face of the other cube and
\* exactly the threshold above the ground, and stayed there
C24_Witness ==
    /\ SnapStep
    /\ AtThreshold(MovedBox) # {}
    /\ MovedBox.min.y = SNAP_THRESHOLD
    /\ Eligible(MovedBox) = {}
    /\ objects[Dragged].position = event.moved

\* C25: in every state of the timer page an interval is held in
\* timerInterval exactly when isPaused is false, the intervals the page has
\* running are that one and no other, so that at most one is running; and a
\* click on start while the timer runs changes nothing.
C25_SingleInterval ==
    /\ [](/\ timer.timerInterval # 0 <=> ~timer.isPaused
          /\ timer.scheduled = {timer.timerInterval} \ {0}
          /\ Cardinality(timer.scheduled) <= 1)
    /\ [][(event'.op = "start" /\ ~timer.isPaused) => timer' = timer]_vars

\* the start button was pressed while the timer was running, after an
\* expiry and a change of settings and mode
C25_Witness ==
    /\ event.op = "start" /\ event.note = "running"
    /\ Cardinality(timer.scheduled) = 1
    /\ timer.beeps > 0
    /\ timer.currentMode # "pomodoro"
    /\ timer.durations.pomodoro = 1

\* the timer has expired: no time left, paused, no interval running
Expired ==
    /\ timer.timeLeft = 0
    /\ timer.isPaused
    /\ timer.timerInterval = 0
    /\ timer.scheduled = {}

\* C26: a started timer that is left alone eventually expires (no time
\* left, paused, no interval running); the tick that finds no time left
\* plays the beep once and ends in the expired state, no other tick plays
\* it; timeLeft is never negative; and a start after the expiry begins at
\* the full duration of the current mode.
C26_CountdownExpires ==
    /\ (~timer.isPaused) ~> Expired
    /\ [](timer.timeLeft >= 0)
    /\ [][/\ (event'.op = "countdown" /\ timer.timeLeft <= 0)
               => (timer'.beeps = timer.beeps + 1 /\ Expired')
          /\ (event'.op = "countdown" /\ timer.timeLeft > 0)
               => (timer'.beeps = timer.beeps
                   /\ timer'.timeLeft = timer.timeLeft - 1)
          /\ (event'.op = "start" /\ Expired)
               => (/\ timer'.timeLeft
                        = timer.durations[timer.currentMode] * 60
                   /\ ~timer'.isPaused
                   /\ timer'.beeps = timer.beeps)]_vars

\* a timer started after an expiry has run down and expired in its turn
C26_Witness ==
    /\ event.op = "countdown" /\ event.note = "expired"
    /\ Expired
    /\ timer.beeps = 2
    /\ timer.display = <<0, 0>>

====
